---- MODULE Spec2Model ----
(***************************************************************************)
(* Model of jetporch's field accessor, src/handle/template.rs (Template). *)
(*                                                                         *)
(* A Rust String is a sequence of one-character strings, so that find(),   *)
(* trim(), parse() and PathBuf::push() are computed character by           *)
(* character.  Messages built by format! are sequences of text fragments.  *)
(* The collaborators the file only calls (render_template, test_cond,      *)
(* screen_path, screen_general_input_strict, Path::is_file) answer through *)
(* an environment record `e` chosen per call.  Every accessor is an        *)
(* operator returning [ret, log]: the Result it returns and the ordered    *)
(* list of collaborator calls it made.                                     *)
(***************************************************************************)
EXTENDS Integers, Sequences, FiniteSets, TLC

VARIABLES
    mode,       \* run_state.visitor.is_syntax_only(): the run state's live flag
    tmpl,       \* the Template instance: NoInstance or [syntax_only |-> BOOLEAN]
    born,       \* history: value of `mode` when the instance was constructed
    calls,      \* history: number of accessor calls made on the instance (bounded)
    last,       \* the last accessor call of the instance: input, answers, outcome
    lock,       \* RwLock<PlaybookContext>: [readers, writer]
    inst,       \* per host pipeline: its Template instance
    pc,         \* per host pipeline: position inside its accessor call
    cur,        \* per host pipeline: the call in progress (input, outcome)
    pos         \* per host pipeline: number of collaborator calls already made

vars == <<mode, tmpl, born, calls, last, lock, inst, pc, cur, pos>>

seqVars == <<tmpl, born, calls, last>>
conVars == <<lock, inst, pc, cur, pos>>

(***************************************************************************)
(* Bounds                                                                  *)
(***************************************************************************)
MaxCalls == 2

Hosts == {"h1", "h2"}

(***************************************************************************)
(* Strings                                                                 *)
(***************************************************************************)
EmptyStr == << >>
Marker == <<"{", "{", "x", "}", "}">>
MarkerAbs == <<"/", "{", "{", "x", "}", "}">>
TwoWords == <<"a", " ", "b">>
OneWord == <<"a", "_", "b">>
Int42 == <<"4", "2">>
IntNeg == <<"-", "7">>
PadInt == <<" ", "5">>
LitTrue == <<"t", "r", "u", "e">>
LitFalse == <<"f", "a", "l", "s", "e">>
AbsPath == <<"/", "x">>
RelPath == <<"x">>

\* raw field values a module passes in
RawValues ==
    {EmptyStr, Marker, MarkerAbs, TwoWords, OneWord, Int42, IntNeg, PadInt,
     LitTrue, AbsPath, RelPath}

\* strings the evaluator may render a template to
Rendered == {EmptyStr, TwoWords, OneWord, Int42, PadInt, LitTrue, LitFalse, AbsPath}

Fields == {<<"dest">>}

None == [some |-> FALSE]
Some(v) == [some |-> TRUE, v |-> v]
OptValues == {None} \cup {Some(t) : t \in RawValues}

Ok(v) == [ok |-> TRUE, val |-> v]
Err(x) == [ok |-> FALSE, err |-> x]

Digits == {"0", "1", "2", "3", "4", "5", "6", "7", "8", "9"}

DigitVal(c) ==
    CASE c = "0" -> 0 [] c = "1" -> 1 [] c = "2" -> 2 [] c = "3" -> 3
      [] c = "4" -> 4 [] c = "5" -> 5 [] c = "6" -> 6 [] c = "7" -> 7
      [] c = "8" -> 8 [] c = "9" -> 9

RECURSIVE DecValue(_)
DecValue(ds) ==
    IF ds = << >> THEN 0
    ELSE 10 * DecValue(SubSeq(ds, 1, Len(ds) - 1)) + DigitVal(ds[Len(ds)])

\* str::parse::<i64>: an optional sign, then one or more ASCII digits
parse_i64(st) ==
    LET signed == Len(st) > 0 /\ st[1] \in {"+", "-"}
        ds == IF signed THEN Tail(st) ELSE st
    IN  IF ds # << >> /\ \A i \in 1..Len(ds) : ds[i] \in Digits
        THEN Ok(IF signed /\ st[1] = "-" THEN 0 - DecValue(ds) ELSE DecValue(ds))
        ELSE Err("ParseIntError")

\* str::parse::<bool>: exactly "true" or "false"
parse_bool(st) ==
    IF st = LitTrue THEN Ok(TRUE)
    ELSE IF st = LitFalse THEN Ok(FALSE)
    ELSE Err("ParseBoolError")

RECURSIVE trim_start(_)
trim_start(s) ==
    IF s # << >> /\ s[1] = " " THEN trim_start(Tail(s)) ELSE s

RECURSIVE trim_end(_)
trim_end(s) ==
    IF s # << >> /\ s[Len(s)] = " " THEN trim_end(SubSeq(s, 1, Len(s) - 1)) ELSE s

trim(s) == trim_end(trim_start(s))

\* Path::is_absolute on the control node (unix): the path starts at the root
is_absolute(p) == Len(p) > 0 /\ p[1] = "/"

\* PathBuf::push: an absolute argument replaces the path, else it is appended
PathPush(p, q) ==
    IF is_absolute(q) \/ p = << >> THEN q
    ELSE IF p[Len(p)] = "/" THEN p \o q
    ELSE p \o <<"/">> \o q

PathNew == << >>

DirTemplates == <<"t", "e", "m", "p", "l", "a", "t", "e", "s">>
DirFiles == <<"f", "i", "l", "e", "s">>

(***************************************************************************)
(* Collaborators: answers come from the environment record e               *)
(*   e.render : Result<String,String> of PlaybookContext::render_template  *)
(*   e.cond   : Result<bool,String>   of PlaybookContext::test_cond        *)
(*   e.g1,e.g2: answers of the 1st / 2nd screen_general_input_strict call  *)
(*   e.p      : answer of screen_path                                      *)
(*   e.files  : the paths that are regular files on the control node       *)
(***************************************************************************)
ScreenAnswers == {"accept", "accept_trimmed", "reject"}

RenderAnswers == {Ok(s) : s \in Rendered} \cup {Err(<<"render error">>)}

CondAnswers == {Ok(TRUE), Ok(FALSE), Err(<<"cond error">>)}

FileSystems == SUBSET {AbsPath, PathPush(DirFiles, RelPath), PathPush(DirTemplates, RelPath)}

\* for path(): the rendered path names a regular file, or nothing does
PathFileSystems == {{}, {AbsPath}}

\* a screening predicate accepts its input (as is, or trimmed) or rejects it
screen_general_input_strict(x, answer) ==
    CASE answer = "accept" -> Ok(x)
      [] answer = "accept_trimmed" -> Ok(trim(x))
      [] answer = "reject" -> Err(<<"illegal characters found">>)

screen_path(x, answer) ==
    CASE answer = "accept" -> Ok(x)
      [] answer = "accept_trimmed" -> Ok(trim(x))
      [] answer = "reject" -> Err(<<"path is not allowed">>)

is_file(path, e) == path \in e.files

\* Response::is_failed(request, msg): the request-scoped terminal failure
is_failed(msg) == [failed |-> TRUE, msg |-> msg]

\* entries of an accessor's log of collaborator calls
Ev(op, arg) == [op |-> op, arg |-> arg, blend |-> "-"]
EvRender(template, blend_target) ==
    [op |-> "render_template", arg |-> template, blend |-> blend_target]
Report(msg) == Ev("is_failed", msg)

Out(ret, log) == [ret |-> ret, log |-> log]

\* {:?} of an Arc<TaskResponse>
DebugFmt(resp) == <<"TaskResponse { msg: ">> \o resp.msg \o <<" }">>

(***************************************************************************)
(* impl Template                                                           *)
(***************************************************************************)
NoInstance == [exists |-> FALSE]

\* Template::new: the flag is read from the run state and stored
new(syntax_value) == [exists |-> TRUE, syntax_only |-> syntax_value]

\* variant: the flag is read from the run state at each use
is_syntax_live(self) == mode
is_syntax(self) == self.syntax_only

contains_vars(input) ==
    \E i \in 1..(Len(input) - 1) : input[i] = "{" /\ input[i + 1] = "{"

\* a template without the marker is literal text and renders to itself
RenderAnswersFor(template) ==
    IF ~template.some THEN {Err(<<"render error">>)}
    ELSE IF contains_vars(template.v) THEN RenderAnswers
    ELSE {Ok(template.v)}

\* variant: the gate ignores the marker
is_syntax_skip_eval_any(self, template) == is_syntax(self)
is_syntax_skip_eval(self, template) ==
    contains_vars(template) /\ is_syntax(self)

\* variant: an absent value is gated in syntax-only mode
is_syntax_skip_eval_option_absent(self, template) ==
    IF ~template.some THEN is_syntax(self)
    ELSE contains_vars(template.v) /\ is_syntax(self)
is_syntax_skip_eval_option(self, template) ==
    IF ~template.some THEN FALSE
    ELSE contains_vars(template.v) /\ is_syntax(self)

has_spaces(input) == \E i \in 1..Len(input) : input[i] = " "

\* Err(self.response.is_failed(request, &msg)) after the collaborator calls in log
Failed(log, msg) == Out(Err(is_failed(msg)), log \o <<Report(msg)>>)

\* the outcome o of a step taken after the collaborator calls in log
with_log(log, o) == Out(o.ret, log \o o.log)

unwrap_string_result(self, str_result) ==
    IF str_result.ok THEN Out(Ok(str_result.val), << >>)
    ELSE Failed(<< >>, str_result.err)

\* lines 107-114: the render result is checked for emptiness, then unwrapped
rendered_checked(self, result, rendered) ==
    IF result.ok /\ result.val = EmptyStr
    THEN Failed(rendered, <<"evaluated to empty string">>)
    ELSE with_log(rendered, unwrap_string_result(self, result))

\* variant: an empty render is not rejected
template_unsafe_internal_allow_empty(self, e, field, template, blend_target) ==
    IF is_syntax_skip_eval(self, template) THEN Out(Ok(EmptyStr), << >>)
    ELSE with_log(<<EvRender(template, blend_target)>>, unwrap_string_result(self, e.render))
template_unsafe_internal(self, e, field, template, blend_target) ==
    IF is_syntax_skip_eval(self, template) THEN Out(Ok(EmptyStr), << >>)
    ELSE rendered_checked(self, e.render, <<EvRender(template, blend_target)>>)

string_for_template_module_use_only(self, e, field, template) ==
    template_unsafe_internal(self, e, field, template, "TemplateModule")

string_unsafe(self, e, field, template) ==
    template_unsafe_internal(self, e, field, template, "NotTemplateModule")

\* the match on screen_general_input_strict(&x), lines 131-134 and 197-200
general_screened(field, x, s, log, wrap) ==
    IF s.ok THEN Out(Ok(IF wrap THEN Some(s.val) ELSE s.val), log)
    ELSE Failed(log, <<"field ">> \o field \o <<", ">> \o s.err)

\* lines 130-136: the match on string_unsafe's result
string_matched(e, field, result) ==
    IF result.ret.ok
    THEN general_screened(field, result.ret.val,
                          screen_general_input_strict(result.ret.val, e.g1),
                          result.log \o <<Ev("screen_general_input_strict", result.ret.val)>>,
                          FALSE)
    ELSE result

string(self, e, field, template) ==
    IF is_syntax_skip_eval(self, template) THEN Out(Ok(EmptyStr), << >>)
    ELSE string_matched(e, field, string_unsafe(self, e, field, template))

\* lines 140-144: `?` on string's result, then the space check
no_spaces_checked(field, r) ==
    IF ~r.ret.ok THEN r
    ELSE IF has_spaces(r.ret.val)
    THEN Failed(r.log, <<"field (">> \o field \o <<"): spaces are not allowed">>)
    ELSE Out(Ok(r.ret.val), r.log)

string_no_spaces(self, e, field, template) ==
    no_spaces_checked(field, string(self, e, field, template))

\* lines 173-175: the match on screen_path(&result2)
path_matched(field, s, log) ==
    IF s.ok THEN Out(Ok(s.val), log)
    ELSE Failed(log, s.err \o <<", for field ">> \o field)

\* line 172: `?` on the unwrapped render result
path_unwrapped(e, field, u, rendered) ==
    IF ~u.ret.ok THEN with_log(rendered, u)
    ELSE path_matched(field, screen_path(u.ret.val, e.p),
                      rendered \o <<Ev("screen_path", u.ret.val)>>)

\* variant: the rendered path must name a regular file
path_requires_file(self, e, field, template) ==
    IF is_syntax_skip_eval(self, template) THEN Out(Ok(EmptyStr), << >>)
    ELSE IF e.render.ok /\ ~is_file(e.render.val, e)
    THEN Failed(<<EvRender(template, "NotTemplateModule"), Ev("is_file", e.render.val)>>,
                <<"no such file, for field ">> \o field)
    ELSE path_unwrapped(e, field, unwrap_string_result(self, e.render),
                        <<EvRender(template, "NotTemplateModule")>>)
path(self, e, field, template) ==
    IF is_syntax_skip_eval(self, template) THEN Out(Ok(EmptyStr), << >>)
    ELSE path_unwrapped(e, field, unwrap_string_result(self, e.render),
                        <<EvRender(template, "NotTemplateModule")>>)

\* lines 184-187: the match on string's result
string_option_unsafe_matched(field, result) ==
    IF result.ret.ok THEN Out(Ok(Some(result.ret.val)), result.log)
    ELSE Failed(result.log, <<"field (">> \o field \o <<") template error: ">>
                              \o DebugFmt(result.ret.err))

string_option_unsafe(self, e, field, template) ==
    IF is_syntax_skip_eval_option(self, template) THEN Out(Ok(Some(EmptyStr)), << >>)
    ELSE IF ~template.some THEN Out(Ok(None), << >>)
    ELSE string_option_unsafe_matched(field, string(self, e, field, template.v))

\* lines 195-204: the match on string_option_unsafe's result
string_option_matched(e, field, result) ==
    IF ~result.ret.ok THEN result
    ELSE IF ~result.ret.val.some THEN Out(Ok(None), result.log)
    ELSE general_screened(field, result.ret.val.v,
                          screen_general_input_strict(result.ret.val.v, e.g2),
                          result.log \o <<Ev("screen_general_input_strict", result.ret.val.v)>>,
                          TRUE)

string_option(self, e, field, template) ==
    IF is_syntax_skip_eval_option(self, template) THEN Out(Ok(Some(EmptyStr)), << >>)
    ELSE string_option_matched(e, field, string_option_unsafe(self, e, field, template))

\* lines 148-155: `?` on string_option's result, then the space check when present
option_no_spaces_checked(field, prelim) ==
    IF ~prelim.ret.ok THEN prelim
    ELSE IF prelim.ret.val.some /\ has_spaces(prelim.ret.val.v)
    THEN Failed(prelim.log, <<"field (">> \o field \o <<"): spaces are not allowed">>)
    ELSE Out(Ok(prelim.ret.val), prelim.log)

string_option_no_spaces(self, e, field, template) ==
    option_no_spaces_checked(field, string_option(self, e, field, template))

\* lines 213-215 and 226-228: the match on parse::<i64>
integer_matched(field, st, num, log, wrap) ==
    IF num.ok THEN Out(Ok(IF wrap THEN Some(num.val) ELSE num.val), log)
    ELSE Failed(log, <<"field (">> \o field \o <<") value is not an integer: ">> \o st)

\* lines 211-212 and 223-224: `?` on string's result, then the parse
integer_parsed(field, r, wrap) ==
    IF ~r.ret.ok THEN r
    ELSE integer_matched(field, r.ret.val, parse_i64(r.ret.val), r.log, wrap)

\* variant: integer relies on string's gate alone
integer_ungated(self, e, field, template) ==
    integer_parsed(field, string(self, e, field, template), FALSE)
integer(self, e, field, template) ==
    IF is_syntax_skip_eval(self, template) THEN Out(Ok(0), << >>)
    ELSE integer_parsed(field, string(self, e, field, template), FALSE)

integer_option(self, e, field, template) ==
    IF is_syntax_skip_eval_option(self, template) THEN Out(Ok(Some(0)), << >>)
    ELSE IF ~template.some THEN Out(Ok(None), << >>)
    ELSE integer_parsed(field, string(self, e, field, template.v), TRUE)

\* lines 237-239, 256-259 and 268-271: the match on parse::<bool>
boolean_matched(field, st, x, log, wrap) ==
    IF x.ok THEN Out(Ok(IF wrap THEN Some(x.val) ELSE x.val), log)
    ELSE Failed(log, <<"field (">> \o field \o <<") value is not a boolean: ">> \o st)

\* lines 235-236, 254-255 and 266-267: `?` on string's result, then the parse
boolean_parsed(field, r, wrap) ==
    IF ~r.ret.ok THEN r
    ELSE boolean_matched(field, r.ret.val, parse_bool(r.ret.val), r.log, wrap)

boolean(self, e, field, template) ==
    IF is_syntax_skip_eval(self, template) THEN Out(Ok(FALSE), << >>)
    ELSE boolean_parsed(field, string(self, e, field, template), FALSE)

internal_boolean_option(self, e, field, template, default) ==
    IF is_syntax_skip_eval_option(self, template) \/ ~template.some
    THEN Out(Ok(default), << >>)
    ELSE boolean_parsed(field, string(self, e, field, template.v), FALSE)

boolean_option_default_true(self, e, field, template) ==
    internal_boolean_option(self, e, field, template, TRUE)

boolean_option_default_false(self, e, field, template) ==
    internal_boolean_option(self, e, field, template, FALSE)

boolean_option_default_none(self, e, field, template) ==
    IF is_syntax_skip_eval_option(self, template) \/ ~template.some
    THEN Out(Ok(None), << >>)
    ELSE boolean_parsed(field, string(self, e, field, template.v), TRUE)

test_cond(self, e, expr) ==
    IF is_syntax_skip_eval(self, expr) THEN Out(Ok(TRUE), << >>)
    ELSE IF e.cond.ok THEN Out(Ok(e.cond.val), <<Ev("test_cond", expr)>>)
    ELSE Failed(<<Ev("test_cond", expr)>>, e.cond.err)

\* lines 303-308: the screened path is absolute
absolute_found(e, field, str_path, path1, log) ==
    IF is_file(path1, e) THEN Out(Ok(path1), log \o <<Ev("is_file", path1)>>)
    ELSE Failed(log \o <<Ev("is_file", path1)>>,
                <<"field (">> \o field \o <<"): no such file: ">> \o str_path)

\* lines 309-318: the screened path is relative
relative_found(e, field, str_path, path2, log) ==
    IF is_file(path2, e) THEN Out(Ok(path2), log \o <<Ev("is_file", path2)>>)
    ELSE Failed(log \o <<Ev("is_file", path2)>>,
                <<"field field (">> \o field \o <<"): no such file: ">> \o str_path)

\* lines 297-318: the match on screen_path(&str_path), then the lookup
sub_path_matched(e, prefix, field, str_path, s, log) ==
    IF ~s.ok THEN Failed(log, s.err \o <<", for field: ">> \o field)
    ELSE IF is_absolute(PathPush(PathNew, s.val))
    THEN absolute_found(e, field, str_path, PathPush(PathNew, s.val), log)
    ELSE relative_found(e, field, str_path,
                        PathPush(PathPush(PathNew, prefix), str_path), log)

find_sub_path(self, e, prefix, field, str_path) ==
    IF is_syntax_skip_eval(self, str_path) THEN Out(Ok(PathNew), << >>)
    ELSE sub_path_matched(e, prefix, field, str_path, screen_path(str_path, e.p),
                          <<Ev("screen_path", str_path)>>)

find_template_path(self, e, field, str_path) ==
    find_sub_path(self, e, DirTemplates, field, str_path)

find_file_path(self, e, field, str_path) ==
    find_sub_path(self, e, DirFiles, field, str_path)

(***************************************************************************)
(* One module's field extraction: a Template instance and its calls        *)
(***************************************************************************)
Env(render, cond, g1, g2, p, files) ==
    [render |-> render, cond |-> cond, g1 |-> g1, g2 |-> g2, p |-> p, files |-> files]

\* answers of the collaborators an accessor has no call to
NoRender == Err(<<"render error">>)
NoCond == Err(<<"cond error">>)
NoScreen == "reject"
NoFiles == {}

NoCall == [called |-> FALSE]

Idle == [busy |-> FALSE]

Init ==
    /\ mode \in BOOLEAN
    /\ tmpl = NoInstance
    /\ born = FALSE
    /\ calls = 0
    /\ last = NoCall
    /\ lock = [readers |-> {}, writer |-> {}]
    /\ inst = [h \in Hosts |-> new(mode)]
    /\ pc = [h \in Hosts |-> "idle"]
    /\ cur = [h \in Hosts |-> Idle]
    /\ pos = [h \in Hosts |-> 0]

\* the visitor behind run_state's RwLock changes its execution mode
SetMode ==
    /\ mode' = ~mode
    /\ UNCHANGED <<seqVars, conVars>>

New ==
    /\ ~tmpl.exists
    /\ tmpl' = new(mode)
    /\ born' = mode
    /\ calls' = 0
    /\ last' = NoCall
    /\ UNCHANGED <<mode, conVars>>

\* extraction completes and the module drops its instance
Drop ==
    /\ tmpl.exists
    /\ tmpl' = NoInstance
    /\ UNCHANGED <<mode, born, calls, last, conVars>>

\* the accessor has returned and the module goes on with the value or the failure
Return ==
    /\ last.called
    /\ last' = NoCall
    /\ UNCHANGED <<mode, tmpl, born, calls, conVars>>

\* the module holds an instance and is not inside a call
CanCall == tmpl.exists /\ ~last.called /\ calls < MaxCalls

\* the record of a completed call: template is an Option for every accessor
Called(acc, field, template, e, out) ==
    /\ calls' = calls + 1
    /\ last' = [called |-> TRUE, acc |-> acc, field |-> field, template |-> template,
                e |-> e, syntax_only |-> is_syntax(tmpl),
                gated |-> is_syntax_skip_eval_option(tmpl, template),
                out |-> out]
    /\ UNCHANGED <<mode, tmpl, born, conVars>>

Call_string_for_template_module_use_only ==
    /\ CanCall
    /\ \E f \in Fields, t \in RawValues :
       \E r \in RenderAnswersFor(Some(t)) :
           LET e == Env(r, NoCond, NoScreen, NoScreen, NoScreen, NoFiles)
           IN  Called("string_for_template_module_use_only", f, Some(t), e,
                      string_for_template_module_use_only(tmpl, e, f, t))

Call_string_unsafe ==
    /\ CanCall
    /\ \E f \in Fields, t \in RawValues :
       \E r \in RenderAnswersFor(Some(t)) :
           LET e == Env(r, NoCond, NoScreen, NoScreen, NoScreen, NoFiles)
           IN  Called("string_unsafe", f, Some(t), e, string_unsafe(tmpl, e, f, t))

Call_string ==
    /\ CanCall
    /\ \E f \in Fields, t \in RawValues :
       \E r \in RenderAnswersFor(Some(t)), g \in ScreenAnswers :
           LET e == Env(r, NoCond, g, NoScreen, NoScreen, NoFiles)
           IN  Called("string", f, Some(t), e, string(tmpl, e, f, t))

Call_string_no_spaces ==
    /\ CanCall
    /\ \E f \in Fields, t \in RawValues :
       \E r \in RenderAnswersFor(Some(t)), g \in ScreenAnswers :
           LET e == Env(r, NoCond, g, NoScreen, NoScreen, NoFiles)
           IN  Called("string_no_spaces", f, Some(t), e, string_no_spaces(tmpl, e, f, t))

Call_string_option_no_spaces ==
    /\ CanCall
    /\ \E f \in Fields, t \in OptValues :
       \E r \in RenderAnswersFor(t), g1 \in ScreenAnswers,
          g2 \in ScreenAnswers :
           LET e == Env(r, NoCond, g1, g2, NoScreen, NoFiles)
           IN  Called("string_option_no_spaces", f, t, e,
                      string_option_no_spaces(tmpl, e, f, t))

Call_path ==
    /\ CanCall
    /\ \E f \in Fields, t \in RawValues :
       \E r \in RenderAnswersFor(Some(t)), p \in ScreenAnswers,
          fs \in PathFileSystems :
           LET e == Env(r, NoCond, NoScreen, NoScreen, p, fs)
           IN  Called("path", f, Some(t), e, path(tmpl, e, f, t))

Call_string_option_unsafe ==
    /\ CanCall
    /\ \E f \in Fields, t \in OptValues :
       \E r \in RenderAnswersFor(t), g1 \in ScreenAnswers :
           LET e == Env(r, NoCond, g1, NoScreen, NoScreen, NoFiles)
           IN  Called("string_option_unsafe", f, t, e, string_option_unsafe(tmpl, e, f, t))

Call_string_option ==
    /\ CanCall
    /\ \E f \in Fields, t \in OptValues :
       \E r \in RenderAnswersFor(t), g1 \in ScreenAnswers,
          g2 \in ScreenAnswers :
           LET e == Env(r, NoCond, g1, g2, NoScreen, NoFiles)
           IN  Called("string_option", f, t, e, string_option(tmpl, e, f, t))

Call_integer ==
    /\ CanCall
    /\ \E f \in Fields, t \in RawValues :
       \E r \in RenderAnswersFor(Some(t)), g \in ScreenAnswers :
           LET e == Env(r, NoCond, g, NoScreen, NoScreen, NoFiles)
           IN  Called("integer", f, Some(t), e, integer(tmpl, e, f, t))

Call_integer_option ==
    /\ CanCall
    /\ \E f \in Fields, t \in OptValues :
       \E r \in RenderAnswersFor(t), g \in ScreenAnswers :
           LET e == Env(r, NoCond, g, NoScreen, NoScreen, NoFiles)
           IN  Called("integer_option", f, t, e, integer_option(tmpl, e, f, t))

Call_boolean ==
    /\ CanCall
    /\ \E f \in Fields, t \in RawValues :
       \E r \in RenderAnswersFor(Some(t)), g \in ScreenAnswers :
           LET e == Env(r, NoCond, g, NoScreen, NoScreen, NoFiles)
           IN  Called("boolean", f, Some(t), e, boolean(tmpl, e, f, t))

Call_boolean_option_default_true ==
    /\ CanCall
    /\ \E f \in Fields, t \in OptValues :
       \E r \in RenderAnswersFor(t), g \in ScreenAnswers :
           LET e == Env(r, NoCond, g, NoScreen, NoScreen, NoFiles)
           IN  Called("boolean_option_default_true", f, t, e,
                      boolean_option_default_true(tmpl, e, f, t))

Call_boolean_option_default_false ==
    /\ CanCall
    /\ \E f \in Fields, t \in OptValues :
       \E r \in RenderAnswersFor(t), g \in ScreenAnswers :
           LET e == Env(r, NoCond, g, NoScreen, NoScreen, NoFiles)
           IN  Called("boolean_option_default_false", f, t, e,
                      boolean_option_default_false(tmpl, e, f, t))

Call_boolean_option_default_none ==
    /\ CanCall
    /\ \E f \in Fields, t \in OptValues :
       \E r \in RenderAnswersFor(t), g \in ScreenAnswers :
           LET e == Env(r, NoCond, g, NoScreen, NoScreen, NoFiles)
           IN  Called("boolean_option_default_none", f, t, e,
                      boolean_option_default_none(tmpl, e, f, t))

Call_test_cond ==
    /\ CanCall
    /\ \E f \in Fields, t \in RawValues, c \in CondAnswers :
           LET e == Env(NoRender, c, NoScreen, NoScreen, NoScreen, NoFiles)
           IN  Called("test_cond", f, Some(t), e, test_cond(tmpl, e, t))

Call_find_template_path ==
    /\ CanCall
    /\ \E f \in Fields, t \in RawValues, p \in ScreenAnswers, fs \in FileSystems :
           LET e == Env(NoRender, NoCond, NoScreen, NoScreen, p, fs)
           IN  Called("find_template_path", f, Some(t), e, find_template_path(tmpl, e, f, t))

Call_find_file_path ==
    /\ CanCall
    /\ \E f \in Fields, t \in RawValues, p \in ScreenAnswers, fs \in FileSystems :
           LET e == Env(NoRender, NoCond, NoScreen, NoScreen, p, fs)
           IN  Called("find_file_path", f, Some(t), e, find_file_path(tmpl, e, f, t))

Next ==
    \/ SetMode
    \/ New
    \/ Drop
    \/ Return
    \/ Call_string_for_template_module_use_only
    \/ Call_string_unsafe
    \/ Call_string
    \/ Call_string_no_spaces
    \/ Call_string_option_no_spaces
    \/ Call_path
    \/ Call_string_option_unsafe
    \/ Call_string_option
    \/ Call_integer
    \/ Call_integer_option
    \/ Call_boolean
    \/ Call_boolean_option_default_true
    \/ Call_boolean_option_default_false
    \/ Call_boolean_option_default_none
    \/ Call_test_cond
    \/ Call_find_template_path
    \/ Call_find_file_path

Spec == Init /\ [][Next]_vars

(***************************************************************************)
(* Host pipelines calling accessors concurrently against the shared        *)
(* playbook context.  A call is taken one collaborator call at a time, in  *)
(* the order of its log; the evaluator calls are made under the context's  *)
(* read lock.                                                              *)
(***************************************************************************)
RequiredAccessors ==
    {"string_for_template_module_use_only", "string_unsafe", "string", "string_no_spaces",
     "path", "integer", "boolean", "test_cond", "find_template_path", "find_file_path"}

OptionalAccessors ==
    {"string_option_unsafe", "string_option", "string_option_no_spaces", "integer_option",
     "boolean_option_default_true", "boolean_option_default_false",
     "boolean_option_default_none"}

\* the accessor named acc, applied to an Option (required accessors take template.v)
Accessor(acc, self, e, field, template) ==
    CASE acc = "string_for_template_module_use_only" ->
             string_for_template_module_use_only(self, e, field, template.v)
      [] acc = "string_unsafe" -> string_unsafe(self, e, field, template.v)
      [] acc = "string" -> string(self, e, field, template.v)
      [] acc = "string_no_spaces" -> string_no_spaces(self, e, field, template.v)
      [] acc = "path" -> path(self, e, field, template.v)
      [] acc = "integer" -> integer(self, e, field, template.v)
      [] acc = "boolean" -> boolean(self, e, field, template.v)
      [] acc = "test_cond" -> test_cond(self, e, template.v)
      [] acc = "find_template_path" -> find_template_path(self, e, field, template.v)
      [] acc = "find_file_path" -> find_file_path(self, e, field, template.v)
      [] acc = "string_option_unsafe" -> string_option_unsafe(self, e, field, template)
      [] acc = "string_option" -> string_option(self, e, field, template)
      [] acc = "string_option_no_spaces" -> string_option_no_spaces(self, e, field, template)
      [] acc = "integer_option" -> integer_option(self, e, field, template)
      [] acc = "boolean_option_default_true" ->
             boolean_option_default_true(self, e, field, template)
      [] acc = "boolean_option_default_false" ->
             boolean_option_default_false(self, e, field, template)
      [] acc = "boolean_option_default_none" ->
             boolean_option_default_none(self, e, field, template)

\* inputs and answers of the concurrent pipelines
ConcTemplates == {None, Some(Marker), Some(OneWord)}
ConcRender == {Ok(OneWord), NoRender}
ConcCond == {Ok(TRUE), NoCond}
ConcScreen == {"accept", "reject"}

\* RwLock::read succeeds unless a writer holds the lock; readers share it
CanRead(l) == l.writer = {}

\* context.read().unwrap(): host h holds a read guard
read(l, h) == [l EXCEPT !.readers = @ \cup {h}]

\* variant: the guard is bound to a local and lives until the accessor returns
drop_guard_at_return(l, h) == l
\* the guard is a temporary of the evaluating statement and is dropped at its end
drop_guard(l, h) == [l EXCEPT !.readers = @ \ {h}, !.writer = @ \ {h}]

IsEvaluation(ev) == ev.op \in {"render_template", "test_cond"}

Remaining(h) == cur[h].busy /\ pos[h] < Len(cur[h].out.log)
NextCall(h) == cur[h].out.log[pos[h] + 1]

\* a module on host h calls an accessor of its instance
Begin(h) ==
    /\ pc[h] = "idle"
    /\ \E acc \in RequiredAccessors \cup OptionalAccessors, f \in Fields,
          t \in ConcTemplates, c \in ConcCond, g \in ConcScreen, p \in ConcScreen :
       \E r \in RenderAnswersFor(t) \cap ConcRender :
           /\ acc \in RequiredAccessors => t.some
           /\ cur' = [cur EXCEPT ![h] =
                         [busy |-> TRUE, acc |-> acc, template |-> t,
                          out |-> Accessor(acc, inst[h], Env(r, c, g, "accept", p, NoFiles),
                                           f, t)]]
    /\ pos' = [pos EXCEPT ![h] = 0]
    /\ pc' = [pc EXCEPT ![h] = "run"]
    /\ UNCHANGED <<mode, seqVars, lock, inst>>

AcquireRead(h) ==
    /\ pc[h] = "run"
    /\ Remaining(h)
    /\ IsEvaluation(NextCall(h))
    /\ CanRead(lock)
    /\ lock' = read(lock, h)
    /\ pc' = [pc EXCEPT ![h] = "locked"]
    /\ UNCHANGED <<mode, seqVars, inst, cur, pos>>

\* render_template / test_cond runs under the guard
Evaluate(h) ==
    /\ pc[h] = "locked"
    /\ pos' = [pos EXCEPT ![h] = @ + 1]
    /\ pc' = [pc EXCEPT ![h] = "evaluated"]
    /\ UNCHANGED <<mode, seqVars, lock, inst, cur>>

ReleaseRead(h) ==
    /\ pc[h] = "evaluated"
    /\ lock' = drop_guard(lock, h)
    /\ pc' = [pc EXCEPT ![h] = "run"]
    /\ UNCHANGED <<mode, seqVars, inst, cur, pos>>

\* screening, the filesystem check or the failure reporter
Local(h) ==
    /\ pc[h] = "run"
    /\ Remaining(h)
    /\ ~IsEvaluation(NextCall(h))
    /\ pos' = [pos EXCEPT ![h] = @ + 1]
    /\ UNCHANGED <<mode, seqVars, lock, inst, cur, pc>>

\* the accessor returns to the module
Finish(h) ==
    /\ pc[h] = "run"
    /\ cur[h].busy
    /\ ~Remaining(h)
    /\ cur' = [cur EXCEPT ![h] = Idle]
    /\ pos' = [pos EXCEPT ![h] = 0]
    /\ pc' = [pc EXCEPT ![h] = "idle"]
    /\ UNCHANGED <<mode, seqVars, lock, inst>>

NextLock ==
    \E h \in Hosts :
        \/ Begin(h)
        \/ AcquireRead(h)
        \/ Evaluate(h)
        \/ ReleaseRead(h)
        \/ Local(h)
        \/ Finish(h)

SpecLock == Init /\ [][NextLock]_vars

(***************************************************************************)
(* Properties                                                              *)
(***************************************************************************)
Raw == last.template.v
Ret == last.out.ret
Log == last.out.log

\* the instance of the last call was built in syntax-only mode and its raw value
\* is present and holds the template-open marker
GatedCall == born /\ last.template.some /\ contains_vars(Raw)

Invoked(op) == \E i \in 1..Len(Log) : Log[i].op = op
ReportCount == Cardinality({i \in 1..Len(Log) : Log[i].op = "is_failed"})

Placeholder(acc) ==
    CASE acc \in {"string", "string_unsafe", "string_no_spaces", "path"} -> EmptyStr
      [] acc = "integer" -> 0
      [] acc = "boolean" -> FALSE
      [] acc = "test_cond" -> TRUE
      [] acc \in {"find_template_path", "find_file_path"} -> PathNew

\* C1: on an instance built in syntax-only mode, a raw value holding "{{" makes
\* string, string_unsafe, string_no_spaces and path return Ok(""), integer Ok(0),
\* boolean Ok(false), test_cond Ok(true) and find_template_path / find_file_path
\* the empty path, with no call to the evaluator, the screening predicates, the
\* failure reporter or the filesystem.
C1_GatedPlaceholder ==
    (/\ last.called
     /\ last.acc \in RequiredAccessors \ {"string_for_template_module_use_only"}
     /\ GatedCall)
    => /\ Log = << >>
       /\ Ret.ok
       /\ Ret.val = Placeholder(last.acc)

C1_Witness ==
    /\ last.called
    /\ GatedCall
    /\ last.acc = "integer"
    /\ last.e.render = Ok(Int42)
    /\ Ret = Ok(0)

\* C2: for a raw value without "{{" (or an absent one) an instance built in
\* syntax-only mode makes the same collaborator calls and returns the same
\* success or failure as an apply-mode instance does for the same evaluator,
\* screening and filesystem answers.
C2_NoMarkerSameAsApply ==
    (/\ last.called
     /\ born
     /\ last.template.some => ~contains_vars(Raw))
    => LET apply == Accessor(last.acc, new(FALSE), last.e, last.field, last.template)
       IN  /\ Log = apply.log
           /\ Ret.ok = apply.ret.ok
           /\ Ret = apply.ret

C2_Witness ==
    /\ last.called
    /\ born
    /\ last.acc = "string_no_spaces"
    /\ last.template = Some(TwoWords)
    /\ last.e.render = Ok(TwoWords)
    /\ last.e.g1 = "accept"
    /\ ~Ret.ok
    /\ Ret.err.msg = <<"field (", "dest", "): spaces are not allowed">>

\* C3: an absent optional value is never gated and string_option,
\* string_option_unsafe, string_option_no_spaces and integer_option return
\* Ok(None) for it in both modes; a present gated value yields Ok(Some(""))
\* from the three string options and Ok(Some(0)) from integer_option; the
\* boolean options return the default (or None) when the value is absent or gated.
C3_OptionalPlaceholders ==
    (last.called /\ last.acc \in OptionalAccessors)
    => /\ ~last.template.some => ~last.gated
       /\ (/\ ~last.template.some
           /\ last.acc \in {"string_option", "string_option_unsafe",
                            "string_option_no_spaces", "integer_option"})
          => last.out = Out(Ok(None), << >>)
       /\ (/\ GatedCall
           /\ last.acc \in {"string_option", "string_option_unsafe",
                            "string_option_no_spaces"})
          => last.out = Out(Ok(Some(EmptyStr)), << >>)
       /\ (GatedCall /\ last.acc = "integer_option")
          => last.out = Out(Ok(Some(0)), << >>)
       /\ (/\ GatedCall \/ ~last.template.some
           /\ last.acc = "boolean_option_default_true")
          => last.out = Out(Ok(TRUE), << >>)
       /\ (/\ GatedCall \/ ~last.template.some
           /\ last.acc = "boolean_option_default_false")
          => last.out = Out(Ok(FALSE), << >>)
       /\ (/\ GatedCall \/ ~last.template.some
           /\ last.acc = "boolean_option_default_none")
          => last.out = Out(Ok(None), << >>)

C3_Witness ==
    /\ last.called
    /\ born
    /\ last.acc = "string_option"
    /\ ~last.template.some
    /\ Ret = Ok(None)

\* C4 as stated: string fails whenever its template resolves to the empty string.
C4_EmptyAlwaysFails ==
    (/\ last.called
     /\ last.acc = "string"
     /\ last.e.render = Ok(EmptyStr))
    => ~Ret.ok

\* C4 amended: string fails with "evaluated to empty string" whenever its
\* template resolves to the empty string and the call is not gated (the instance
\* is in apply mode, or the raw value holds no "{{").
C4_EmptyFailsUnlessGated ==
    (/\ last.called
     /\ last.acc = "string"
     /\ last.e.render = Ok(EmptyStr)
     /\ ~GatedCall)
    => /\ ~Ret.ok
       /\ Ret.err = is_failed(<<"evaluated to empty string">>)

C4_Witness ==
    /\ last.called
    /\ last.acc = "string"
    /\ ~born
    /\ Raw = Marker
    /\ last.e.render = Ok(EmptyStr)
    /\ last.e.g1 = "accept"
    /\ ~Ret.ok

\* the rendered string exists and path screening rejects it
ScreeningRejects == last.e.render.ok /\ ~screen_path(last.e.render.val, last.e.p).ok

\* C5 as stated: path never touches the filesystem, fails only when path
\* screening rejects the rendered string, and returns the screened string when
\* screening accepts it.
C5_PathFailsOnlyOnScreening ==
    (last.called /\ last.acc = "path")
    => /\ ~Invoked("is_file")
       /\ ~Ret.ok => ScreeningRejects
       /\ (Invoked("screen_path") /\ ~ScreeningRejects)
          => Ret = screen_path(last.e.render.val, last.e.p)

\* C5 amended: path never touches the filesystem and its outcome does not depend
\* on which files exist; it fails only when the evaluator fails or path screening
\* rejects the rendered string, and returns the screened string when screening
\* accepts it.
C5_PathFailsOnEvaluatorOrScreening ==
    (last.called /\ last.acc = "path")
    => /\ ~Invoked("is_file")
       /\ \A fs \in PathFileSystems :
              path(new(born), [last.e EXCEPT !.files = fs], last.field, Raw).ret.ok = Ret.ok
       /\ ~Ret.ok => (~last.e.render.ok \/ ScreeningRejects)
       /\ (Invoked("screen_path") /\ ~ScreeningRejects)
          => Ret = screen_path(last.e.render.val, last.e.p)

C5_Witness ==
    /\ last.called
    /\ last.acc = "path"
    /\ ~born
    /\ last.e.render = Ok(AbsPath)
    /\ last.e.p = "accept"
    /\ last.e.files = {}
    /\ Ret = Ok(AbsPath)

NoSuchFile(field, str_path) == <<"field (">> \o field \o <<"): no such file: ">> \o str_path

\* C6: in find_template_path / find_file_path, for a raw path that passes path
\* screening and is not gated, an absolute path is returned unchanged iff it is
\* a regular file, a relative path is returned as {subdirectory}/{path} iff that
\* is a regular file, and in both cases a missing file fails with
\* "field ({field}): no such file: {path}".
C6_FindSubPath ==
    (/\ last.called
     /\ last.acc \in {"find_template_path", "find_file_path"}
     /\ ~GatedCall
     /\ screen_path(Raw, last.e.p).ok)
    => LET prelim == screen_path(Raw, last.e.p).val
           sub == IF last.acc = "find_template_path" THEN DirTemplates ELSE DirFiles
           found == IF is_absolute(prelim) THEN prelim ELSE sub \o <<"/">> \o Raw
       IN  /\ Ret.ok <=> found \in last.e.files
           /\ Ret.ok => Ret.val = found
           /\ ~Ret.ok => Ret.err.msg = NoSuchFile(last.field, Raw)

\* C7: the syntax-only flag of an instance is the run state's mode at
\* construction, whatever the run state's mode is now, and the gate decision of
\* every call of the instance is the one that mode determines.
C7_FlagSnapshot ==
    /\ tmpl.exists => is_syntax(tmpl) = born
    /\ last.called => last.syntax_only = born
    /\ last.called => (last.gated <=> GatedCall)

C7_Witness ==
    /\ last.called
    /\ calls = MaxCalls
    /\ mode # born
    /\ born
    /\ last.gated
    /\ last.acc = "test_cond"
    /\ Ret = Ok(TRUE)

\* C8: within one accessor call the failure reporter is invoked at most once,
\* exactly once when the call fails, and the failure returned is the one built at
\* the point of detection.
C8_ReportedOnce ==
    last.called
    => /\ ReportCount <= 1
       /\ ~Ret.ok => (\E i \in 1..Len(Log) :
                          /\ Log[i].op = "is_failed"
                          /\ \A j \in 1..(i - 1) : Log[j].op # "is_failed"
                          /\ Ret.err = is_failed(Log[i].arg))

\* C10: for a present raw value that is not gated, string_option_unsafe returns
\* Ok(Some(v)) exactly when string_unsafe returns Ok(v) on the same value and
\* fails exactly when string_unsafe fails, without general-input screening.
C10_OptionUnsafeIsStringUnsafe ==
    (/\ last.called
     /\ last.acc = "string_option_unsafe"
     /\ last.template.some
     /\ ~GatedCall)
    => LET u == string_unsafe(new(born), last.e, last.field, Raw)
       IN  /\ ~Invoked("screen_general_input_strict")
           /\ Ret.ok = u.ret.ok
           /\ Ret.ok => Ret.val = Some(u.ret.val)

HoldsGuard(h) == h \in lock.readers \/ h \in lock.writer

\* C9: a pipeline holds the context's read lock only around one evaluator call:
\* not while screening, checking the filesystem, reporting a failure or between
\* calls; no accessor takes the write lock, so a pipeline about to evaluate can
\* always take the read lock, whatever the other pipelines hold.
C9_ReadLockPerEvaluation ==
    /\ lock.writer = {}
    /\ CanRead(lock)
    /\ \A h \in Hosts :
           /\ HoldsGuard(h) => pc[h] \in {"locked", "evaluated"}
           /\ pc[h] = "locked" => (Remaining(h) /\ IsEvaluation(NextCall(h)))
           /\ pc[h] = "evaluated" => IsEvaluation(cur[h].out.log[pos[h]])
           /\ (pc[h] = "run" /\ Remaining(h) /\ ~IsEvaluation(NextCall(h))) => ~HoldsGuard(h)
           /\ cur[h].busy =>
                  Cardinality({i \in 1..Len(cur[h].out.log) :
                                   IsEvaluation(cur[h].out.log[i])}) <= 1

C9_Witness ==
    /\ lock.readers = Hosts
    /\ \A h \in Hosts : pc[h] = "locked"

====
